---- MODULE Spec2Model ----
(***************************************************************************)
(* Inventory and reservation rules of the library application:            *)
(* library/views.py (borrow_book, return_book, reserve_book,               *)
(* cancel_reservation, my_loans, my_reservations) over the rows of         *)
(* library/models.py (Book, Loan, Reservation, Fine, UserProfile).         *)
(*                                                                         *)
(* Time is counted in ticks, TicksPerDay ticks to a calendar day, so that  *)
(* "now > due_date" (a datetime comparison) and the difference of the two  *)
(* calendar dates are different things, as they are in the code.           *)
(***************************************************************************)
EXTENDS Integers, Sequences, FiniteSets, TLC

\* ------------------------------------------------------------------ bounds
\* Loan rows created on the requested books, Reservation rows created, renewals
\* asked for one loan, days the clock runs, and the resolution of the clock.
MaxLoans == 2
MaxReservations == 2
MaxRenewRequests == 1
MaxDays == 15
TicksPerDay == 2

\* ------------------------------------------------------- program constants
LoanPeriodDays == 14
HoldDays == 7
MaxRenewals == 3
HardLoanCap == 5
FinePerDay == 1

NULL == -1

VARIABLES
    now,               \* timezone.now(), in ticks
    total_copies,      \* Book.total_copies, per book id
    available_copies,  \* Book.available_copies, per book id
    loan_limit,        \* UserProfile.loan_limit, per user id
    loans,             \* the Loan table: row id = index
    reservations,      \* the Reservation table: row id = index
    fines,             \* the Fine table: row id = index
    req                \* requests in flight (borrow_book executed step by step)

vars == <<now, total_copies, available_copies, loan_limit, loans, reservations, fines, req>>

Users == DOMAIN loan_limit
Books == DOMAIN total_copies
\* requests are made on the first two books of the catalogue
ReqBooks == Books \cap {1, 2}
Slots == {1, 2}

days(n) == n * TicksPerDay
date(t) == t \div TicksPerDay

LoanIds == 1..Len(loans)
ResIds == 1..Len(reservations)
FineIds == 1..Len(fines)

\* ------------------------------------------------------------ models.py
\* Loan.is_overdue
is_overdue(l) == IF l.status = "returned" THEN FALSE ELSE now > l.due_date

\* Loan.days_overdue
days_overdue(l) == IF ~is_overdue(l) THEN 0 ELSE date(now) - date(l.due_date)

\* Loan.calculate_fine: the loan object after the call, and the value returned
calculate_fine(l) ==
    IF is_overdue(l) /\ l.status # "returned"
    THEN [loan |-> [l EXCEPT !.fine_amount = days_overdue(l) * FinePerDay,
                             !.status = "overdue"],
          amount |-> days_overdue(l) * FinePerDay]
    ELSE [loan |-> l, amount |-> 0]

\* Reservation.is_expired
is_expired(r) == now > r.expiry_date /\ r.status \notin {"fulfilled", "cancelled"}

\* the tests of can_be_renewed with the overdue test first (a deviation C13 must
\* detect)
can_be_renewed_overdue_first(l) ==
    IF is_overdue(l) THEN "OVERDUE"
    ELSE IF l.renewal_count >= MaxRenewals THEN "MAX_RENEWALS"
    ELSE IF \E r \in ResIds : reservations[r].book = l.book
                              /\ reservations[r].status = "pending"
         THEN "RESERVED_BY_OTHERS"
    ELSE "OK"

\* Loan.can_be_renewed
can_be_renewed(l) ==
    IF l.renewal_count >= MaxRenewals THEN "MAX_RENEWALS"
    ELSE IF is_overdue(l) THEN "OVERDUE"
    ELSE IF \E r \in ResIds : reservations[r].book = l.book
                              /\ reservations[r].status = "pending"
         THEN "RESERVED_BY_OTHERS"
    ELSE "OK"

\* --------------------------------------------------------- ORM queries
\* Loan.objects.filter(book=b, user=u, status='active')
ActiveLoansOf(b, u) ==
    {i \in LoanIds : loans[i].book = b /\ loans[i].user = u /\ loans[i].status = "active"}

\* Loan.objects.filter(user=u, status='active').count()
active_loans_count(u) ==
    Cardinality({i \in LoanIds : loans[i].user = u /\ loans[i].status = "active"})

\* Fine.objects.filter(user=u, status='pending').exists()
pending_fines(u) == \E f \in FineIds : fines[f].user = u /\ fines[f].status = "pending"

\* Reservation.objects.filter(book=b, user=u, status__in=['pending','available'])
OpenReservationsOf(rs, b, u) ==
    {r \in 1..Len(rs) : rs[r].book = b /\ rs[r].user = u
                        /\ rs[r].status \in {"pending", "available"}}

\* the same query ordered by '-reservation_date' (a deviation C6 must detect)
NextReservation_latest(rs, b) ==
    LET P == {r \in 1..Len(rs) : rs[r].book = b /\ rs[r].status = "pending"}
    IN {r \in P : \A q \in P : rs[r].reservation_date >= rs[q].reservation_date}

\* Reservation.objects.filter(book=b, status='pending').order_by('reservation_date').first():
\* the rows the query may return (rows of equal reservation_date come in no defined order)
NextReservation(rs, b) ==
    LET P == {r \in 1..Len(rs) : rs[r].book = b /\ rs[r].status = "pending"}
    IN {r \in P : \A q \in P : rs[r].reservation_date <= rs[q].reservation_date}

\* unique_together = ['book', 'user'] of Reservation.Meta: an INSERT is refused
\* when any row, whatever its status, has the same (book, user)
UniqueTogetherViolated(b, u) ==
    \E r \in ResIds : reservations[r].book = b /\ reservations[r].user = u

ReqIdle ==
    [s \in Slots |-> [pc |-> "idle", book |-> 0, user |-> 0, avail |-> 0, loan |-> 0]]

\* --------------------------------------------------------------- Init
InitTables ==
    /\ now = 0
    /\ reservations = <<>>
    /\ fines = <<>>
    /\ req = ReqIdle

\* A library that opens with one book of one copy and three borrowers.
Init ==
    /\ InitTables
    /\ total_copies = <<1>>
    /\ available_copies = total_copies
    /\ loan_limit = <<5, 5, 5>>
    /\ loans = <<>>

\* A library with two borrowers and six books, the first in two copies. Borrower 1
\* has just borrowed the books 3..6; borrower 2 is limited to one loan.
InitShelf ==
    /\ InitTables
    /\ total_copies = <<2, 1, 1, 1, 1, 1>>
    /\ available_copies = <<2, 1, 0, 0, 0, 0>>
    /\ loan_limit = <<5, 1>>
    /\ loans = [i \in 1..(HardLoanCap - 1) |->
                  [book |-> 2 + i, user |-> 1, loan_date |-> 0,
                   due_date |-> days(LoanPeriodDays), return_date |-> NULL,
                   status |-> "active", renewal_count |-> 0, fine_amount |-> 0]]

\* A library with two borrowers and one book of one copy, found at time 0 with
\* this history: borrower 1 borrowed the copy 14 days ago, so the loan is due now.
InitLate ==
    /\ InitTables
    /\ total_copies = <<1>>
    /\ available_copies = <<0>>
    /\ loan_limit = <<5, 5>>
    /\ loans = << [book |-> 1, user |-> 1, loan_date |-> 0 - days(LoanPeriodDays),
                   due_date |-> 0, return_date |-> NULL,
                   status |-> "active", renewal_count |-> 0, fine_amount |-> 0] >>

\* A library with five borrowers and one book in two copies, found at time 0 with
\* this history: borrowers 1 and 2 borrowed the two copies two days ago; borrowers
\* 3, 4 and 5 reserved the book, in this order; a day ago borrowers 1 and 2
\* returned their copies, which promoted the reservations of borrowers 3 and 4,
\* and borrowers 3 and 4 cancelled them. Both copies are on the shelf and the
\* reservation of borrower 5 is pending.
InitQueue ==
    /\ now = 0
    /\ fines = <<>>
    /\ req = ReqIdle
    /\ total_copies = <<2>>
    /\ available_copies = <<2>>
    /\ loan_limit = <<5, 5, 5, 5, 5>>
    /\ loans = [i \in 1..2 |->
                  [book |-> 1, user |-> i, loan_date |-> 0 - days(2),
                   due_date |-> days(LoanPeriodDays - 2), return_date |-> 0 - days(1),
                   status |-> "returned", renewal_count |-> 0, fine_amount |-> 0]]
    /\ reservations =
          << [book |-> 1, user |-> 3, reservation_date |-> 0 - days(2),
              expiry_date |-> days(HoldDays - 1), status |-> "cancelled"],
             [book |-> 1, user |-> 4, reservation_date |-> 1 - days(2),
              expiry_date |-> days(HoldDays - 1), status |-> "cancelled"],
             [book |-> 1, user |-> 5, reservation_date |-> 0 - days(1),
              expiry_date |-> days(HoldDays - 1), status |-> "pending"] >>

\* ------------------------------------------------------ views.borrow_book
\* the checks with the pending fines looked at before the existing loan
\* (a deviation C4 must detect)
borrow_check_fines_first(avail, b, u) ==
    IF avail <= 0 THEN "UNAVAILABLE"
    ELSE IF pending_fines(u) THEN "FINES_OUTSTANDING"
    ELSE IF ActiveLoansOf(b, u) # {} THEN "ALREADY_BORROWED"
    ELSE IF active_loans_count(u) >= HardLoanCap THEN "LOAN_LIMIT_REACHED"
    ELSE "OK"

\* the checks without the look at the existing loan (a deviation C10 must detect)
borrow_check_no_existing(avail, b, u) ==
    IF avail <= 0 THEN "UNAVAILABLE"
    ELSE IF pending_fines(u) THEN "FINES_OUTSTANDING"
    ELSE IF active_loans_count(u) >= HardLoanCap THEN "LOAN_LIMIT_REACHED"
    ELSE "OK"

\* the four checks of borrow_book, made on the Book object read at the top of
\* the view (avail is its available_copies) and on the tables as they are now
borrow_check(avail, b, u) ==
    IF avail <= 0 THEN "UNAVAILABLE"
    ELSE IF ActiveLoansOf(b, u) # {} THEN "ALREADY_BORROWED"
    ELSE IF pending_fines(u) THEN "FINES_OUTSTANDING"
    ELSE IF active_loans_count(u) >= HardLoanCap THEN "LOAN_LIMIT_REACHED"
    ELSE "OK"

borrow_outcome(b, u) == borrow_check(available_copies[b], b, u)

\* Loan.objects.create(book=b, user=u, due_date=now + 14 days)
NewLoan(b, u) ==
    [book |-> b, user |-> u, loan_date |-> now,
     due_date |-> now + days(LoanPeriodDays), return_date |-> NULL,
     status |-> "active", renewal_count |-> 0, fine_amount |-> 0]

\* lines 259-277: the borrower's own open reservation becomes 'fulfilled', then
\* the first pending reservation of the book becomes 'available' if the Book
\* object still shows a copy (avail is its available_copies after the decrement).
\* The set of tables the view may leave.
BorrowReservations(rs, b, u, avail) ==
    LET own == OpenReservationsOf(rs, b, u)
        rs1 == [r \in 1..Len(rs) |->
                  IF r \in own THEN [rs[r] EXCEPT !.status = "fulfilled"] ELSE rs[r]]
        nxt == NextReservation(rs1, b)
    IN IF Cardinality(own) > 1 THEN {rs}      \* get() raises MultipleObjectsReturned
       ELSE IF nxt # {} /\ avail > 0
            THEN {[rs1 EXCEPT ![r].status = "available"] : r \in nxt}
            ELSE {rs1}

ReqLoanIds == {i \in LoanIds : loans[i].book \in ReqBooks}
\* the Loan rows made on the requested books from time 0 on (rows dated before
\* time 0 are the history an initial state starts with)
LoansOnReqBooks == Cardinality({i \in ReqLoanIds : loans[i].loan_date >= 0})

borrow_book(b, u) ==
    /\ LoansOnReqBooks < MaxLoans
    /\ IF borrow_outcome(b, u) # "OK"
       THEN UNCHANGED vars
       ELSE /\ loans' = Append(loans, NewLoan(b, u))
            /\ available_copies' = [available_copies EXCEPT ![b] = @ - 1]
            /\ reservations' \in
                  BorrowReservations(reservations, b, u, available_copies[b] - 1)
            /\ UNCHANGED <<now, total_copies, loan_limit, fines, req>>

\* ------------------------------------------------------ views.return_book
\* lines 309-317: the first pending reservation of the book becomes 'available'
\* and its expiry_date is set to now + 7 days
ReturnPromote(rs, b) ==
    LET nxt == NextReservation(rs, b)
    IN IF nxt = {} THEN {rs}
       ELSE {[rs EXCEPT ![r].status = "available",
                        ![r].expiry_date = now + days(HoldDays)] : r \in nxt}

\* get_object_or_404(Loan, id=loan_id, user=u, status='active')
return_found(id, u) ==
    id \in LoanIds /\ loans[id].user = u /\ loans[id].status = "active"

\* lines 287-303: the loan object is marked returned first, and only then asked
\* whether it is overdue; the object that is saved and the fine amount
ReturnedLoan(l) ==
    LET l1 == [l EXCEPT !.return_date = now, !.status = "returned"]
    IN IF is_overdue(l1) THEN calculate_fine(l1) ELSE [loan |-> l1, amount |-> 0]

NewFine(u, id, amount) ==
    [user |-> u, loan |-> id, amount |-> amount, status |-> "pending"]

\* return_book where the promoted reservation takes the copy off the shelf again
\* (a deviation the amended C9 must detect)
return_book_hold(id, u) ==
    IF ~return_found(id, u)
    THEN UNCHANGED vars
    ELSE LET res == ReturnedLoan(loans[id])
             b == loans[id].book
         IN /\ loans' = [loans EXCEPT ![id] = res.loan]
            /\ fines' = IF res.amount > 0
                        THEN Append(fines, NewFine(u, id, res.amount))
                        ELSE fines
            /\ available_copies' = IF NextReservation(reservations, b) = {}
                                   THEN [available_copies EXCEPT ![b] = @ + 1]
                                   ELSE available_copies
            /\ reservations' \in ReturnPromote(reservations, b)
            /\ UNCHANGED <<now, total_copies, loan_limit, req>>

return_book(id, u) ==
    IF ~return_found(id, u)
    THEN UNCHANGED vars
    ELSE LET res == ReturnedLoan(loans[id])
             b == loans[id].book
         IN /\ loans' = [loans EXCEPT ![id] = res.loan]
            /\ fines' = IF res.amount > 0
                        THEN Append(fines, NewFine(u, id, res.amount))
                        ELSE fines
            /\ available_copies' = [available_copies EXCEPT ![b] = @ + 1]
            /\ reservations' \in ReturnPromote(reservations, b)
            /\ UNCHANGED <<now, total_copies, loan_limit, req>>

\* ----------------------------------------------------- views.reserve_book
\* reserve_book where neither the view nor the table refuses a second
\* reservation (a deviation C7 must detect)
reserve_outcome_no_duplicate(b, u) ==
    IF available_copies[b] > 0 THEN "BOOK_AVAILABLE"
    ELSE IF ActiveLoansOf(b, u) # {} THEN "ALREADY_HOLDING"
    ELSE "OK"

reserve_outcome(b, u) ==
    IF available_copies[b] > 0 THEN "BOOK_AVAILABLE"
    ELSE IF OpenReservationsOf(reservations, b, u) # {} THEN "DUPLICATE"
    ELSE IF ActiveLoansOf(b, u) # {} THEN "ALREADY_HOLDING"
    ELSE IF UniqueTogetherViolated(b, u) THEN "INTEGRITY_ERROR"
    ELSE "OK"

NewReservation(b, u) ==
    [book |-> b, user |-> u, reservation_date |-> now,
     expiry_date |-> now + days(HoldDays), status |-> "pending"]

\* the Reservation rows made from time 0 on
ReservationsMade ==
    Cardinality({r \in ResIds : reservations[r].reservation_date >= 0})

reserve_book(b, u) ==
    /\ ReservationsMade < MaxReservations
    /\ IF reserve_outcome(b, u) # "OK"
       THEN UNCHANGED vars
       ELSE /\ reservations' = Append(reservations, NewReservation(b, u))
            /\ UNCHANGED <<now, total_copies, loan_limit, available_copies, loans, fines, req>>

\* ----------------------------------------------- views.cancel_reservation
\* the lookup without the status filter (a deviation C21 must detect)
cancel_found_any_status(id, u) ==
    id \in ResIds /\ reservations[id].user = u

cancel_found(id, u) ==
    id \in ResIds /\ reservations[id].user = u
    /\ reservations[id].status \in {"pending", "available"}

\* cancel_reservation that hands the hold to the next pending reservation of the
\* book (a deviation C15 must detect)
cancel_reservation_promote(id, u) ==
    IF ~cancel_found(id, u)
    THEN UNCHANGED vars
    ELSE /\ reservations' \in
               ReturnPromote([reservations EXCEPT ![id].status = "cancelled"],
                             reservations[id].book)
         /\ UNCHANGED <<now, total_copies, loan_limit, available_copies, loans, fines, req>>

cancel_reservation(id, u) ==
    IF ~cancel_found(id, u)
    THEN UNCHANGED vars
    ELSE /\ reservations' = [reservations EXCEPT ![id].status = "cancelled"]
         /\ UNCHANGED <<now, total_copies, loan_limit, available_copies, loans, fines, req>>

\* ---------------------------------- views.get_reservation_queue_position
\* the count made with reservation_date__lte (a deviation C14 must detect)
get_reservation_queue_position_lte(b, u) ==
    LET mine == {r \in ResIds : /\ reservations[r].book = b /\ reservations[r].user = u
                                /\ reservations[r].status = "pending"}
    IN IF mine = {} THEN [code |-> 404, position |-> 0]
       ELSE IF Cardinality(mine) > 1 THEN [code |-> 500, position |-> 0]
       ELSE LET me == CHOOSE r \in mine : TRUE
            IN [code |-> 200,
                position |-> 1 + Cardinality({q \in ResIds :
                     /\ reservations[q].book = b /\ reservations[q].status = "pending"
                     /\ reservations[q].reservation_date
                           <= reservations[me].reservation_date})]

\* the JSON answer: 404 when get() finds no pending reservation of the borrower
\* for the book (500 when it finds several), else the position
get_reservation_queue_position(b, u) ==
    LET mine == {r \in ResIds : /\ reservations[r].book = b /\ reservations[r].user = u
                                /\ reservations[r].status = "pending"}
    IN IF mine = {} THEN [code |-> 404, position |-> 0]
       ELSE IF Cardinality(mine) > 1 THEN [code |-> 500, position |-> 0]
       ELSE LET me == CHOOSE r \in mine : TRUE
            IN [code |-> 200,
                position |-> 1 + Cardinality({q \in ResIds :
                     /\ reservations[q].book = b /\ reservations[q].status = "pending"
                     /\ reservations[q].reservation_date
                           < reservations[me].reservation_date})]

\* --------------------------------------------------------- views.my_loans
\* Fine.objects.get_or_create(user=u, loan=id, defaults={'amount': amount}) and,
\* when the row was already there, fine.amount = amount; fine.save()
get_or_create_fine(fs, u, id, amount) ==
    LET old == {f \in 1..Len(fs) : fs[f].user = u /\ fs[f].loan = id}
    IN IF old = {} THEN Append(fs, NewFine(u, id, amount))
       ELSE [f \in 1..Len(fs) |->
               IF f \in old THEN [fs[f] EXCEPT !.amount = amount] ELSE fs[f]]

\* one pass of the loop of my_loans over the loan with row id i
SweepLoan(l) ==
    IF l.status = "active" /\ is_overdue(l) THEN calculate_fine(l)
    ELSE [loan |-> l, amount |-> 0]

RECURSIVE SweepFines(_, _, _)
SweepFines(fs, u, i) ==
    IF i = 0 THEN fs
    ELSE LET res == SweepLoan(loans[i])
         IN SweepFines(IF loans[i].user = u /\ res.amount > 0
                       THEN get_or_create_fine(fs, u, i, res.amount)
                       ELSE fs,
                       u, i - 1)

\* the Loan table and the Fine table as my_loans(u) leaves them
my_loans_loans(u) ==
    [i \in LoanIds |-> IF loans[i].user = u THEN SweepLoan(loans[i]).loan ELSE loans[i]]

my_loans_fines(u) == SweepFines(fines, u, Len(loans))

\* my_loans where the loop takes every loan past due that is not returned and
\* makes a Fine row each time (a deviation C11 must detect)
my_loans_create(u) ==
    /\ loans' = [i \in LoanIds |->
                   IF loans[i].user = u /\ is_overdue(loans[i])
                   THEN calculate_fine(loans[i]).loan ELSE loans[i]]
    /\ fines' = fines \o [k \in 1..Cardinality({i \in LoanIds :
                                 loans[i].user = u /\ is_overdue(loans[i])}) |->
                            LET i == CHOOSE j \in LoanIds :
                                       /\ loans[j].user = u /\ is_overdue(loans[j])
                                       /\ Cardinality({h \in 1..j : loans[h].user = u
                                                          /\ is_overdue(loans[h])}) = k
                            IN NewFine(u, i, calculate_fine(loans[i]).amount)]
    /\ UNCHANGED <<now, total_copies, loan_limit, available_copies, reservations, req>>

my_loans(u) ==
    /\ loans' = my_loans_loans(u)
    /\ fines' = my_loans_fines(u)
    /\ UNCHANGED <<now, total_copies, loan_limit, available_copies, reservations, req>>

\* -------------------------------------------------- views.my_reservations
\* the Reservation table as my_reservations(u) leaves it
my_reservations_rows(u) ==
    [r \in ResIds |->
          IF reservations[r].user = u /\ is_expired(reservations[r])
             /\ reservations[r].status \in {"pending", "available"}
          THEN [reservations[r] EXCEPT !.status = "expired"]
          ELSE reservations[r]]

my_reservations(u) ==
    /\ reservations' = my_reservations_rows(u)
    /\ UNCHANGED <<now, total_copies, loan_limit, available_copies, loans, fines, req>>

\* ------------------------------------------------------------ Loan.renew
\* Loan.renew() of the loan with row id
Loan_renew(id) ==
    /\ id \in LoanIds
    /\ IF can_be_renewed(loans[id]) # "OK"
       THEN UNCHANGED vars
       ELSE /\ loans' = [loans EXCEPT ![id].due_date = now + days(LoanPeriodDays),
                                      ![id].renewal_count = @ + 1]
            /\ UNCHANGED <<now, total_copies, loan_limit, available_copies, reservations, fines, req>>

\* Loan.renew() asked at most MaxRenewRequests times for one loan
renew(id) ==
    /\ id \in LoanIds
    /\ loans[id].renewal_count < MaxRenewRequests
    /\ Loan_renew(id)

\* ------------------------------------------------------------- the clock
\* time passes a week at a time, or a week and a tick
Advances == {days(HoldDays), days(HoldDays) + 1}

Tick(d) ==
    /\ now + d <= days(MaxDays)
    /\ now' = now + d
    /\ UNCHANGED <<total_copies, loan_limit, available_copies, loans, reservations, fines, req>>

Next ==
    \/ \E b \in ReqBooks, u \in Users : borrow_book(b, u)
    \/ \E id \in ReqLoanIds, u \in Users : return_book(id, u)
    \/ \E b \in ReqBooks, u \in Users : reserve_book(b, u)
    \/ \E id \in ResIds, u \in Users : cancel_reservation(id, u)
    \/ \E u \in Users : my_loans(u)
    \/ \E u \in Users : my_reservations(u)
    \/ \E id \in ReqLoanIds : renew(id)
    \/ \E d \in Advances : Tick(d)

Spec == Init /\ [][Next]_vars

SpecShelf == InitShelf /\ [][Next]_vars

SpecLate == InitLate /\ [][Next]_vars

\* the requests that write the Reservation table, and the clock
NextQueue ==
    \/ \E b \in ReqBooks, u \in Users : borrow_book(b, u)
    \/ \E id \in ReqLoanIds, u \in Users : return_book(id, u)
    \/ \E b \in ReqBooks, u \in Users : reserve_book(b, u)
    \/ \E id \in ResIds, u \in Users : cancel_reservation(id, u)
    \/ \E u \in Users : my_reservations(u)
    \/ \E d \in Advances : Tick(d)

SpecQueue == InitQueue /\ [][NextQueue]_vars

\* the requests on loans with Loan.renew() asked as often as wanted
NextRenew ==
    \/ \E b \in ReqBooks, u \in Users : borrow_book(b, u)
    \/ \E id \in ReqLoanIds, u \in Users : return_book(id, u)
    \/ \E b \in ReqBooks, u \in Users : reserve_book(b, u)
    \/ \E u \in Users : my_loans(u)
    \/ \E id \in ReqLoanIds : Loan_renew(id)
    \/ \E d \in Advances : Tick(d)

SpecRenew == Init /\ [][NextRenew]_vars

\* --------------------------------- borrow_book, one statement at a time
\* line 221: book = get_object_or_404(Book, id=book_id)
BorrowRead(s, b, u) ==
    /\ req[s].pc = "idle"
    /\ LoansOnReqBooks < MaxLoans
    /\ req' = [req EXCEPT ![s] = [pc |-> "check", book |-> b, user |-> u,
                                  avail |-> available_copies[b], loan |-> 0]]
    /\ UNCHANGED <<now, total_copies, loan_limit, available_copies, loans,
                   reservations, fines>>

\* lines 223-246: the checks, on the Book object read before
BorrowCheck(s) ==
    /\ req[s].pc = "check"
    /\ req' = IF borrow_check(req[s].avail, req[s].book, req[s].user) = "OK"
              THEN [req EXCEPT ![s].pc = "create"]
              ELSE [req EXCEPT ![s] = ReqIdle[s]]
    /\ UNCHANGED <<now, total_copies, loan_limit, available_copies, loans,
                   reservations, fines>>

\* lines 249-253: Loan.objects.create
BorrowCreate(s) ==
    /\ req[s].pc = "create"
    /\ loans' = Append(loans, NewLoan(req[s].book, req[s].user))
    /\ req' = [req EXCEPT ![s].pc = "save"]
    /\ UNCHANGED <<now, total_copies, loan_limit, available_copies, reservations, fines>>

\* lines 256-257: book.available_copies -= 1; book.save(), on the object read before
BorrowSave(s) ==
    /\ req[s].pc = "save"
    /\ available_copies' = [available_copies EXCEPT ![req[s].book] = req[s].avail - 1]
    /\ req' = [req EXCEPT ![s].pc = "reservations"]
    /\ UNCHANGED <<now, total_copies, loan_limit, loans, reservations, fines>>

\* lines 259-280
BorrowFinish(s) ==
    /\ req[s].pc = "reservations"
    /\ reservations' \in BorrowReservations(reservations, req[s].book, req[s].user,
                                            req[s].avail - 1)
    /\ req' = [req EXCEPT ![s] = ReqIdle[s]]
    /\ UNCHANGED <<now, total_copies, loan_limit, available_copies, loans, fines>>

\* two requests served at once, each statement of borrow_book a step of its own
NextConc ==
    \/ \E s \in Slots, b \in ReqBooks, u \in Users : BorrowRead(s, b, u)
    \/ \E s \in Slots : BorrowCheck(s)
    \/ \E s \in Slots : BorrowCreate(s)
    \/ \E s \in Slots : BorrowSave(s)
    \/ \E s \in Slots : BorrowFinish(s)
    \/ \E id \in ReqLoanIds, u \in Users : return_book(id, u)
    \/ \E b \in ReqBooks, u \in Users : reserve_book(b, u)

SpecConc == Init /\ [][NextConc]_vars

\* --------------------------------- return_book, one statement at a time
\* line 285: loan = get_object_or_404(Loan, id=loan_id, user=request.user,
\* status='active'); a request that gets 404 ends here
ReturnRead(s, id, u) ==
    /\ req[s].pc = "idle"
    /\ return_found(id, u)
    /\ req' = [req EXCEPT ![s] = [pc |-> "loan", book |-> loans[id].book, user |-> u,
                                  avail |-> 0, loan |-> id]]
    /\ UNCHANGED <<now, total_copies, loan_limit, available_copies, loans,
                   reservations, fines>>

\* lines 287-303: the loan object is marked returned, the fine is looked at, and
\* loan.save() writes the row (no other request of this specification writes any
\* other field of the row in between)
ReturnLoanSave(s) ==
    /\ req[s].pc = "loan"
    /\ LET res == ReturnedLoan(loans[req[s].loan])
       IN /\ loans' = [loans EXCEPT ![req[s].loan] = res.loan]
          /\ fines' = IF res.amount > 0
                      THEN Append(fines, NewFine(req[s].user, req[s].loan, res.amount))
                      ELSE fines
    /\ req' = [req EXCEPT ![s].pc = "book"]
    /\ UNCHANGED <<now, total_copies, loan_limit, available_copies, reservations>>

\* line 306: loan.book, the Book row fetched on first use
ReturnBookRead(s) ==
    /\ req[s].pc = "book"
    /\ req' = [req EXCEPT ![s].pc = "booksave",
                          ![s].avail = available_copies[req[s].book]]
    /\ UNCHANGED <<now, total_copies, loan_limit, available_copies, loans,
                   reservations, fines>>

\* lines 306-307: loan.book.available_copies += 1; loan.book.save()
ReturnBookSave(s) ==
    /\ req[s].pc = "booksave"
    /\ available_copies' = [available_copies EXCEPT ![req[s].book] = req[s].avail + 1]
    /\ req' = [req EXCEPT ![s].pc = "promote"]
    /\ UNCHANGED <<now, total_copies, loan_limit, loans, reservations, fines>>

\* lines 309-324
ReturnFinish(s) ==
    /\ req[s].pc = "promote"
    /\ reservations' \in ReturnPromote(reservations, req[s].book)
    /\ req' = [req EXCEPT ![s] = ReqIdle[s]]
    /\ UNCHANGED <<now, total_copies, loan_limit, available_copies, loans, fines>>

\* two requests served at once, each statement of borrow_book and of return_book
\* a step of its own
NextConcReturn ==
    \/ \E s \in Slots, b \in ReqBooks, u \in Users : BorrowRead(s, b, u)
    \/ \E s \in Slots : BorrowCheck(s)
    \/ \E s \in Slots : BorrowCreate(s)
    \/ \E s \in Slots : BorrowSave(s)
    \/ \E s \in Slots : BorrowFinish(s)
    \/ \E s \in Slots, id \in ReqLoanIds, u \in Users : ReturnRead(s, id, u)
    \/ \E s \in Slots : ReturnLoanSave(s)
    \/ \E s \in Slots : ReturnBookRead(s)
    \/ \E s \in Slots : ReturnBookSave(s)
    \/ \E s \in Slots : ReturnFinish(s)
    \/ \E b \in ReqBooks, u \in Users : reserve_book(b, u)

SpecConcReturn == Init /\ [][NextConcReturn]_vars

\* ================================================================ claims
ActiveOn(b) == {i \in LoanIds : loans[i].book = b /\ loans[i].status = "active"}

\* C1: for every Book, available_copies + (number of Loans on the book with
\* status 'active') = total_copies, in every reachable state.
C1_CopiesInvariant ==
    \A b \in Books : available_copies[b] + Cardinality(ActiveOn(b)) = total_copies[b]

\* C2: borrow requests of different borrowers, interleaved statement by statement,
\* never leave more borrowers with an active Loan on a book than the book has copies.
C2_NoOverdraw ==
    \A b \in Books :
        Cardinality({loans[i].user : i \in ActiveOn(b)}) <= total_copies[b]

\* C3: return of an active loan at least one calendar day past its due date sets
\* the loan to 'returned' and creates a Fine of (calendar days late) x 1.00.
C3_LateReturnFined ==
    [][\A id \in LoanIds, u \in Users :
         (/\ return_found(id, u)
          /\ now > loans[id].due_date
          /\ date(now) - date(loans[id].due_date) >= 1
          /\ return_book(id, u))
         => /\ loans'[id].status = "returned"
            /\ \E f \in 1..Len(fines') :
                  /\ f \notin FineIds
                  /\ fines'[f].user = u /\ fines'[f].loan = id
                  /\ fines'[f].amount =
                        (date(now) - date(loans[id].due_date)) * FinePerDay]_vars

\* what borrow(b, u) reports, against the order of the preconditions
C4_Reported(b, u) ==
    LET out == borrow_outcome(b, u)
        held == \E i \in LoanIds : /\ loans[i].book = b /\ loans[i].user = u
                                   /\ loans[i].status = "active"
        fined == \E f \in FineIds : fines[f].user = u /\ fines[f].status = "pending"
    IN /\ available_copies[b] <= 0 => out = "UNAVAILABLE"
       /\ available_copies[b] > 0 /\ held => out = "ALREADY_BORROWED"
       /\ available_copies[b] > 0 /\ ~held /\ fined => out = "FINES_OUTSTANDING"
       /\ available_copies[b] > 0 /\ ~held /\ ~fined
             => out \in {"LOAN_LIMIT_REACHED", "OK"}

\* a borrow step that fails changes no table; no Loan is created for a borrower
\* with a pending Fine; a Loan created is one Loan of that borrower and book
C4_Step(b, u) ==
    borrow_book(b, u) =>
       /\ borrow_outcome(b, u) # "OK"
             => UNCHANGED <<loans, available_copies, reservations, fines>>
       /\ pending_fines(u) => loans' = loans
       /\ loans' # loans => /\ Len(loans') = Len(loans) + 1
                            /\ loans'[Len(loans')].user = u
                            /\ loans'[Len(loans')].book = b

\* C4: in every state borrow reports the first failing precondition in the order
\* UNAVAILABLE, ALREADY_BORROWED, FINES_OUTSTANDING, LOAN_LIMIT_REACHED, and every
\* borrow step that fails leaves loans, copies, reservations and fines unchanged.
C4_BorrowOrder ==
    /\ [](\A b \in ReqBooks, u \in Users : C4_Reported(b, u))
    /\ [][\A b \in ReqBooks, u \in Users : C4_Step(b, u)]_vars

\* a borrower with a pending Fine asks for a book that is on the shelf and that
\* they do not hold, and another borrower is refused for the loan limit
C4_Witness ==
    /\ \E b \in ReqBooks, u \in Users : borrow_outcome(b, u) = "FINES_OUTSTANDING"
    /\ \E b \in ReqBooks, u \in Users : borrow_outcome(b, u) = "ALREADY_BORROWED"

\* C5: no borrower ever has more active Loans than their own loan_limit.
C5_LoanLimit ==
    \A u \in Users : active_loans_count(u) <= loan_limit[u]

C7_OneOpenReservation ==
    \A b \in Books, u \in Users : Cardinality(OpenReservationsOf(reservations, b, u)) <= 1

\* a borrower who has an open reservation for a book asks to reserve it again
C7_Witness ==
    \E b \in ReqBooks, u \in Users :
        /\ OpenReservationsOf(reservations, b, u) # {}
        /\ reserve_outcome(b, u) = "DUPLICATE"

\* C8: reserve succeeds whenever the book has no copy on the shelf and the borrower
\* has neither an open reservation for it nor an active loan of it.
C8_ReserveSucceeds ==
    \A b \in ReqBooks, u \in Users :
        (/\ available_copies[b] = 0
         /\ ~\E r \in ResIds : /\ reservations[r].book = b /\ reservations[r].user = u
                               /\ reservations[r].status \in {"pending", "available"}
         /\ ~\E i \in LoanIds : /\ loans[i].book = b /\ loans[i].user = u
                                /\ loans[i].status = "active")
        => reserve_outcome(b, u) = "OK"

\* the reservations a return may promote: the pending ones of the book with no
\* pending reservation of the book dated earlier
C9_Heads(b) ==
    {r \in ResIds :
        /\ reservations[r].book = b /\ reservations[r].status = "pending"
        /\ ~\E q \in ResIds : /\ reservations[q].book = b
                              /\ reservations[q].status = "pending"
                              /\ reservations[q].reservation_date
                                    < reservations[r].reservation_date}

\* C9 as claimed: when a loan is returned on a book with a pending reservation, the
\* earliest pending reservation becomes 'available' and available_copies of the
\* book is 0 once the return has completed.
C9_CopyHeld ==
    [][\A id \in LoanIds, u \in Users :
         (return_found(id, u) /\ C9_Heads(loans[id].book) # {} /\ return_book(id, u))
         => /\ \E r \in C9_Heads(loans[id].book) : reservations'[r].status = "available"
            /\ available_copies'[loans[id].book] = 0]_vars

\* C9 as amended: the earliest pending reservation becomes 'available' with
\* expiry_date now + 7 days, no other reservation changes, and available_copies
\* of the book is one more than before the return.
C9_CopyOnShelf ==
    [][\A id \in LoanIds, u \in Users :
         (return_found(id, u) /\ C9_Heads(loans[id].book) # {} /\ return_book(id, u))
         => /\ \E r \in C9_Heads(loans[id].book) :
                  /\ reservations'[r].status = "available"
                  /\ reservations'[r].expiry_date = now + days(HoldDays)
                  /\ \A q \in ResIds \ {r} : reservations'[q] = reservations[q]
            /\ Len(reservations') = Len(reservations)
            /\ available_copies'[loans[id].book]
                  = available_copies[loans[id].book] + 1]_vars

\* a returned copy is on the shelf while a promoted reservation of the book waits
C9_Witness ==
    \E r \in ResIds, i \in LoanIds :
        /\ reservations[r].status = "available"
        /\ reservations[r].expiry_date = now + days(HoldDays)
        /\ loans[i].book = reservations[r].book
        /\ loans[i].status = "returned" /\ loans[i].return_date = now
        /\ available_copies[reservations[r].book] = 1

\* C10: there is at most one Loan with status 'active' per (book, borrower).
C10_OneActiveLoan ==
    \A b \in Books, u \in Users : Cardinality(ActiveLoansOf(b, u)) <= 1

\* a borrower holds a copy of a book of which another copy is on the shelf
C10_Witness ==
    \E b \in ReqBooks, u \in Users :
        /\ ActiveLoansOf(b, u) # {}
        /\ available_copies[b] > 0
        /\ borrow_outcome(b, u) = "ALREADY_BORROWED"

\* C11: after a my_loans of a borrower that changed a row, a second my_loans of
\* the same borrower with no step in between changes neither the Loan table nor
\* the Fine table (same amounts, no new Fine row), and no Loan ever has more than
\* one Fine row.
C11_SweepIdempotent ==
    /\ [](\A i \in LoanIds : \A f \in FineIds, g \in FineIds :
             fines[f].loan = i /\ fines[g].loan = i => f = g)
    /\ [][loans' # loans =>
            \A u \in Users :
               my_loans(u) => /\ my_loans_loans(u)' = loans'
                              /\ my_loans_fines(u)' = fines']_vars

\* a sweep has flagged a loan and made its Fine, and the loan is still past due
C11_Witness ==
    \E i \in LoanIds, f \in FineIds :
        /\ loans[i].status = "overdue" /\ now > loans[i].due_date
        /\ fines[f].loan = i /\ fines[f].amount = loans[i].fine_amount
        /\ fines[f].amount > 0

\* the reservations that a step promotes
C12_Promoted ==
    {r \in ResIds : reservations[r].status = "pending"
                    /\ reservations'[r].status = "available"}

\* C12: my_reservations(u) sets to 'expired' exactly the reservations of u that are
\* 'pending' or 'available' with now > expiry_date and changes no other field or
\* row, no copy count, no loan and no fine; a second run right after changes
\* nothing; and a promoted reservation cannot be flipped until 7 days after its
\* promotion, because every promotion sets expiry_date to now + 7 days.
C12_ExpireSweep ==
    /\ [](\A u \in Users, r \in ResIds :
             LET old == reservations[r]
                 new == my_reservations_rows(u)[r]
                 due == old.user = u /\ old.status \in {"pending", "available"}
                        /\ now > old.expiry_date
             IN /\ due => new = [old EXCEPT !.status = "expired"]
                /\ ~due => new = old)
    /\ [][reservations' # reservations =>
            \A u \in Users :
               my_reservations(u) =>
                  /\ my_reservations_rows(u)' = reservations'
                  /\ C12_Promoted = {}
                  /\ UNCHANGED <<available_copies, loans, fines>>]_vars
    /\ [][\A r \in C12_Promoted :
            reservations'[r].expiry_date = now + days(HoldDays)]_vars

\* what renew reports for a loan, against the order of the blocking reasons
C13_Reported(l) ==
    LET out == can_be_renewed(l)
        overdue == l.status # "returned" /\ now > l.due_date
        reserved == \E r \in ResIds : /\ reservations[r].book = l.book
                                       /\ reservations[r].status = "pending"
    IN /\ l.renewal_count >= MaxRenewals => out = "MAX_RENEWALS"
       /\ l.renewal_count < MaxRenewals /\ overdue => out = "OVERDUE"
       /\ l.renewal_count < MaxRenewals /\ ~overdue /\ reserved
             => out = "RESERVED_BY_OTHERS"
       /\ l.renewal_count < MaxRenewals /\ ~overdue /\ ~reserved => out = "OK"

\* C13: renew reports the first blocking reason in the order MAX_RENEWALS, OVERDUE,
\* RESERVED_BY_OTHERS (MAX_RENEWALS whenever renewal_count is 3); a renew that is
\* refused changes nothing, one that succeeds sets due_date to now + 14 days and
\* adds 1 to renewal_count; renewal_count is within 0..3 in every state.
C13_Renew ==
    /\ [](\A id \in LoanIds : /\ loans[id].renewal_count \in 0..MaxRenewals
                               /\ C13_Reported(loans[id]))
    /\ [][loans' # loans =>
            \A id \in LoanIds :
               Loan_renew(id) =>
                  /\ can_be_renewed(loans[id]) = "OK"
                  /\ loans'[id].due_date = now + days(LoanPeriodDays)
                  /\ loans'[id].renewal_count = loans[id].renewal_count + 1
                  /\ \A j \in LoanIds \ {id} : loans'[j] = loans[j]
                  /\ Len(loans') = Len(loans)]_vars

\* a loan renewed three times is past due while a reservation of its book is pending
C13_Witness ==
    \E id \in LoanIds, r \in ResIds :
        /\ loans[id].renewal_count = MaxRenewals
        /\ loans[id].status = "active" /\ now > loans[id].due_date
        /\ reservations[r].book = loans[id].book /\ reservations[r].status = "pending"
        /\ can_be_renewed(loans[id]) = "MAX_RENEWALS"

\* the pending reservations of a book
C14_Pending(b) ==
    {r \in ResIds : reservations[r].book = b /\ reservations[r].status = "pending"}

\* C14: the queue_position query answers 404 to a borrower with no pending
\* reservation of the book; a pending reservation with no earlier pending one of
\* the book has position 1; when the pending reservations of a book have distinct
\* dates their positions are exactly 1..n, in the order of the dates; and the
\* first reservation made on a book with no copy on the shelf is told position 1.
C14_QueuePosition ==
    /\ [](\A b \in Books :
             LET P == C14_Pending(b)
                 pos(r) == get_reservation_queue_position(b, reservations[r].user)
             IN /\ \A u \in Users :
                      (\A r \in P : reservations[r].user # u)
                         => get_reservation_queue_position(b, u).code = 404
                /\ \A r \in P :
                      /\ pos(r).code = 200
                      /\ (\A q \in P : reservations[q].reservation_date
                                            >= reservations[r].reservation_date)
                            => pos(r).position = 1
                /\ (\A r \in P, q \in P :
                       r # q => reservations[r].reservation_date
                                   # reservations[q].reservation_date)
                      => /\ {pos(r).position : r \in P} = 1..Cardinality(P)
                         /\ \A r \in P, q \in P :
                               reservations[r].reservation_date
                                  < reservations[q].reservation_date
                               => pos(r).position < pos(q).position)
    /\ [][\A b \in ReqBooks, u \in Users :
            (/\ Len(reservations') = Len(reservations) + 1
             /\ C14_Pending(b) = {}
             /\ reserve_book(b, u))
            => get_reservation_queue_position(b, u)' = [code |-> 200, position |-> 1]]_vars

\* two reservations of one book made at two times are pending, and the later
\* one is told position 2
C14_Witness ==
    \E b \in Books :
        /\ Cardinality(C14_Pending(b)) = 2
        /\ \A r \in C14_Pending(b), q \in C14_Pending(b) :
              r # q => reservations[r].reservation_date # reservations[q].reservation_date
        /\ \E u \in Users : get_reservation_queue_position(b, u).position = 2

\* C15: cancel_reservation is accepted exactly for a reservation of the caller
\* that is 'pending' or 'available'; a step of it that changes anything is such a
\* cancellation, sets that reservation to 'cancelled' and changes no other
\* reservation (none is promoted), no copy count, no loan and no fine.
C15_Cancel ==
    /\ [](\A id \in ResIds, u \in Users :
             cancel_found(id, u) <=> /\ reservations[id].user = u
                                     /\ reservations[id].status \in {"pending", "available"})
    /\ [][\A id \in ResIds, u \in Users :
            (reservations'[id] # reservations[id] /\ cancel_reservation(id, u))
            => /\ reservations[id].user = u
               /\ reservations[id].status \in {"pending", "available"}
               /\ reservations' = [reservations EXCEPT ![id].status = "cancelled"]
               /\ UNCHANGED <<available_copies, loans, fines>>]_vars

\* a reservation has been cancelled while a later reservation of the same book is
\* still pending
C15_Witness ==
    \E a \in ResIds, b \in ResIds :
        /\ reservations[a].book = reservations[b].book
        /\ reservations[a].reservation_date <= reservations[b].reservation_date
        /\ reservations[a].status = "cancelled"
        /\ reservations[b].status = "pending"

\* C16: whenever a loan that is not returned is past due and has a pending Fine
\* (made by an earlier sweep), the Fine table that my_loans of its borrower leaves
\* gives that Fine the days overdue as of now.
C16_FineRecomputed ==
    \A i \in LoanIds, f \in FineIds :
        (/\ loans[i].status \in {"active", "overdue"}
         /\ now > loans[i].due_date
         /\ fines[f].loan = i /\ fines[f].status = "pending")
        => my_loans_fines(loans[i].user)[f].amount
              = (date(now) - date(loans[i].due_date)) * FinePerDay

\* C17: every step that takes a reservation from 'pending' to 'available', a
\* return or a borrow that leaves a copy on the shelf, leaves it with
\* expiry_date = now + 7 days.
C17_PromotionResetsExpiry ==
    [][\A r \in ResIds :
         (reservations[r].status = "pending" /\ reservations'[r].status = "available")
         => reservations'[r].expiry_date = now' + days(HoldDays)]_vars

\* C18: for every Book, 0 <= available_copies <= total_copies in every state,
\* also when returns and borrows run statement by statement side by side.
C18_CopiesInRange ==
    \A b \in Books : 0 <= available_copies[b] /\ available_copies[b] <= total_copies[b]

\* C19: in every state, also between the statements of a borrow or a return, every
\* Loan made on a book is matched by a copy taken off available_copies and every
\* Loan marked returned by a copy put back.
C19_NoPartialMutation ==
    \A b \in Books :
        total_copies[b] - available_copies[b]
           = Cardinality({i \in LoanIds : loans[i].book = b})
             - Cardinality({i \in LoanIds : loans[i].book = b
                                            /\ loans[i].status = "returned"})

\* C20: in every state, return_book by its borrower is accepted for every Loan that
\* is not returned, whether 'active' or flagged 'overdue', and every step of
\* return_book that changes the state sets the loan to 'returned' and puts its
\* copy back on available_copies.
C20_ReturnAlwaysPossible ==
    /\ [](\A i \in LoanIds :
             loans[i].status \in {"active", "overdue"}
                => return_found(i, loans[i].user))
    /\ [][\A i \in LoanIds :
            (loans'[i] # loans[i] /\ return_book(i, loans[i].user))
            => /\ loans'[i].status = "returned"
               /\ available_copies'[loans[i].book]
                     = available_copies[loans[i].book] + 1]_vars

\* the moves of a reservation's status that C21 allows
C21_Move(old, new) ==
    \/ new = old
    \/ old = "pending" /\ new \in {"available", "fulfilled", "cancelled", "expired"}
    \/ old = "available" /\ new \in {"fulfilled", "cancelled", "expired"}

\* C21: a Loan has return_date set exactly when its status is 'returned', and a
\* 'returned' Loan stays 'returned' with its return_date set; no row is ever
\* removed; a Reservation changes status only from 'pending' to 'available' or
\* from 'pending' or 'available' to 'fulfilled', 'cancelled' or 'expired', so the
\* last three are never left.
C21_TerminalAbsorbing ==
    /\ [](\A i \in LoanIds :
             loans[i].status = "returned" <=> loans[i].return_date # NULL)
    /\ [][loans' # loans =>
            /\ Len(loans') >= Len(loans)
            /\ \A i \in LoanIds :
                  loans[i].status = "returned"
                     => /\ loans'[i].status = "returned"
                        /\ loans'[i].return_date # NULL]_vars
    /\ [][reservations' # reservations =>
            /\ Len(reservations') >= Len(reservations)
            /\ \A r \in ResIds :
                  C21_Move(reservations[r].status, reservations'[r].status)]_vars

\* a loan returned earlier, a reservation fulfilled and a reservation cancelled or
\* expired are in the tables
C21_Witness ==
    /\ \E i \in LoanIds : /\ loans[i].status = "returned"
                           /\ loans[i].return_date < now
    /\ \E r \in ResIds : reservations[r].status = "fulfilled"
    /\ \E r \in ResIds : reservations[r].status \in {"cancelled", "expired"}

====
